---- MODULE Spec2Model ----
(***************************************************************************)
(* State-machine model of app.py (MD Creations: catalog, accounts, orders, *)
(* user/admin messaging, admin back office).  The database tables, the     *)
(* upload directory and the login sessions are the state; every route      *)
(* handler is one action, except signup, whose form check and INSERT are   *)
(* two steps so that concurrent requests can interleave between them.      *)
(***************************************************************************)
EXTENDS Integers, Sequences, FiniteSets, TLC

\* ---------------------------------------------------------------- bounds
\* no row is added once products, orders and messages hold MaxRows rows together
MaxRows == 2

\* ---------------------------------------------------------------- inputs
Clients == {"c1", "c2"}
NoForm == [method |-> "GET"]
NoFile == <<>>
NoReq == [method |-> "none"]
NoStatus == "absent"
Anonymous == 0

\* An e-mail address is modelled by its local part and its domain.
Addr(local, domain) == <<local, domain>>

AdminEmail == Addr("admin", "mdcreations.com")
UsernameInputs == {"admin", "alice", "bob", "x"}
EmailInputs == {AdminEmail, Addr("alice", "x.com"), Addr("bob", "x.com"), Addr("alice", "")}
SignupPasswordInputs == {"secret1", "short"}
LoginPasswordInputs == {"adminpassword", "secret1", "wrongpw"}
\* the random salts generate_password_hash may draw
Salts == {"s1", "s2"}

VARIABLES
    phase,        \* "boot", "started" (__main__ ran), "serving" (before_first_request ran)
    users,        \* table user: sequence of rows, id = index
    products,     \* table product: set of rows, each with its id
    files,        \* names of the files in UPLOAD_FOLDER
    orders,       \* table order: sequence of rows, id = index
    order_items,  \* table order_item: sequence of rows, id = index
    messages_tbl, \* table message: sequence of rows, id = index
    session,      \* client -> id of the logged-in user, Anonymous if none
    pending,      \* client -> signup form that passed validation and awaits its INSERT
    resp          \* the response to the request handled last

vars == <<phase, users, products, files, orders, order_items, messages_tbl, session, pending, resp>>
db == <<users, products, files, orders, order_items, messages_tbl>>

\* ---------------------------------------------------------------- helpers
RowCount == Cardinality(products) + Len(orders) + Len(messages_tbl)
Range(s) == {s[i] : i \in DOMAIN s}

Response(c, route, kind, to, flash) ==
    [client |-> c, route |-> route, kind |-> kind, to |-> to, flash |-> flash]

\* werkzeug generate_password_hash: a salted one-way digest, stored with its salt.
Digest(salt, password) == <<salt, password>>
generate_password_hash(password, salt) == [salt |-> salt, digest |-> Digest(salt, password)]
check_password_hash(pwhash, password) == pwhash.digest = Digest(pwhash.salt, password)

set_password(user, password, salt) ==
    [user EXCEPT !.password_hash = generate_password_hash(password, salt)]

check_password_any(user, password) == TRUE

check_password(user, password) == check_password_hash(user.password_hash, password)

NewUser(username, email, is_admin) ==
    [username |-> username, email |-> email, password_hash |-> [salt |-> "", digest |-> <<>>],
     is_admin |-> is_admin]

\* User.query.filter_by(...).first(): the ids of the matching rows
UsersByUsername(username) == {i \in DOMAIN users : users[i].username = username}
UsersByEmail(email) == {i \in DOMAIN users : users[i].email = email}
AdminIds == {i \in DOMAIN users : users[i].is_admin}
First(ids) == CHOOSE i \in ids : \A j \in ids : i <= j

UniqueViolation_unchecked(row) == FALSE

\* unique=True on user.username and user.email: the INSERT's constraint check
UniqueViolation(row) ==
    \E i \in DOMAIN users : users[i].username = row.username \/ users[i].email = row.email

\* flask_login current_user
is_authenticated(c) == session[c] # Anonymous
current_user(c) == users[session[c]]
CurrentIsAdmin(c) == is_authenticated(c) /\ current_user(c).is_admin

\* ---------------------------------------------------------------- startup
SeedAdmin_unconditional(salt) ==
    users' = Append(users, set_password(NewUser("admin", AdminEmail, TRUE), "adminpassword", salt))

\* db.create_all() and the admin seeding, shared by __main__ and create_tables
SeedAdmin(salt) ==
    IF UsersByUsername("admin") = {}
    THEN users' = Append(users, set_password(NewUser("admin", AdminEmail, TRUE), "adminpassword", salt))
    ELSE users' = users

\* the __main__ block, lines 1758-1766
main(salt) ==
    /\ phase = "boot"
    /\ SeedAdmin(salt)
    /\ phase' = "started"
    /\ UNCHANGED <<products, files, orders, order_items, messages_tbl, session, pending, resp>>

\* before_first_request, lines 1747-1756; the first request finds the server either
\* launched through __main__ or imported by a WSGI server, which skips __main__
create_tables(salt) ==
    /\ phase \in {"boot", "started"}
    /\ SeedAdmin(salt)
    /\ phase' = "serving"
    /\ UNCHANGED <<products, files, orders, order_items, messages_tbl, session, pending, resp>>

\* A client may send a request when the server is up and it has none in flight.
Ready(c) == phase = "serving" /\ pending[c] = NoReq

\* ---------------------------------------------------------------- forms
Whitespace == {" ", "\t", "\n", "\r"}
\* wtforms DataRequired on a text given as a sequence of one-character strings: the
\* data is non-empty and data.strip() is too
DataRequired(text) == \E i \in DOMAIN text : text[i] \notin Whitespace

SignupForms ==
    [username : UsernameInputs, email : EmailInputs,
     password : SignupPasswordInputs, confirm_password : SignupPasswordInputs]

EmailOk(e) == e[1] # "" /\ e[2] # ""

\* RegistrationForm: the field validators, then validate_username / validate_email
validate_username_skipped(username) == TRUE

validate_username(username) == UsersByUsername(username) = {}
validate_email(email) == UsersByEmail(email) = {}

RegistrationFormValid(form) ==
    /\ Len(form.username) \in 2..20
    /\ validate_username(form.username)
    /\ EmailOk(form.email)
    /\ validate_email(form.email)
    /\ Len(form.password) >= 6
    /\ form.confirm_password = form.password

\* what the redisplayed signup page tells the visitor
RegistrationFormError(form) ==
    IF form = NoForm THEN ""
    ELSE IF ~validate_username(form.username)
    THEN "That username is taken. Please choose a different one."
    ELSE IF ~validate_email(form.email)
    THEN "That email is taken. Please choose a different one."
    ELSE "invalid field"

LoginForms == [email : EmailInputs, password : LoginPasswordInputs]
LoginFormValid(form) == EmailOk(form.email) /\ form.password # ""

\* ---------------------------------------------------------------- accounts
\* signup, lines 1478-1481 and 1488: up to the form's validation
signup(c, form) ==
    /\ Ready(c)
    /\ UNCHANGED <<phase, db, session>>
    /\ IF is_authenticated(c)
       THEN /\ resp' = Response(c, "signup", "redirect", "home", "")
            /\ UNCHANGED pending
       ELSE IF form = NoForm \/ ~RegistrationFormValid(form)
       THEN /\ resp' = Response(c, "signup", "render", "signup", RegistrationFormError(form))
            /\ UNCHANGED pending
       ELSE /\ pending' = [pending EXCEPT ![c] = form]
            /\ UNCHANGED resp

\* signup, lines 1482-1487: the INSERT and its commit
signup_commit(c, salt) ==
    /\ phase = "serving"
    /\ pending[c] # NoReq
    /\ pending' = [pending EXCEPT ![c] = NoReq]
    /\ UNCHANGED <<phase, products, files, orders, order_items, messages_tbl, session>>
    /\ LET user == set_password(NewUser(pending[c].username, pending[c].email, FALSE),
                                 pending[c].password, salt)
        IN IF UniqueViolation(user)
           THEN /\ users' = users
                /\ resp' = Response(c, "signup", "error", "500", "")
           ELSE /\ users' = Append(users, user)
                /\ resp' = Response(c, "signup", "redirect", "login",
                                    "Your account has been created! You can now log in.")

\* request.args.get('next') of a login request: NoNext when absent or empty
NoNext == ""
\* url_for('product_detail', product_id=...)
ProductUrl(product_id) == "/product/" \o ToString(product_id)

RedirectTarget_home(next_page) == "home"

\* line 1502: next_page or url_for('home')
RedirectTarget(next_page) == IF next_page # NoNext THEN next_page ELSE "home"

login(c, form, next_page) ==
    /\ Ready(c)
    /\ UNCHANGED <<phase, db, pending>>
    /\ IF is_authenticated(c)
       THEN /\ resp' = Response(c, "login", "redirect", "home", "")
            /\ UNCHANGED session
       ELSE IF form = NoForm \/ ~LoginFormValid(form)
       THEN /\ resp' = Response(c, "login", "render", "login", "")
            /\ UNCHANGED session
       ELSE IF UsersByEmail(form.email) # {}
               /\ check_password(users[First(UsersByEmail(form.email))], form.password)
       THEN /\ session' = [session EXCEPT ![c] = First(UsersByEmail(form.email))]
            /\ resp' = Response(c, "login", "redirect", RedirectTarget(next_page),
                                "Login successful!")
       ELSE /\ resp' = Response(c, "login", "render", "login",
                                "Login Unsuccessful. Please check email and password")
            /\ UNCHANGED session

\* a redirect to url_for('login', next=...): the login view, with the page to come
\* back to
RedirectToLogin(c, route, flash, next_page) ==
    [client |-> c, route |-> route, kind |-> "redirect", to |-> "login", flash |-> flash,
     next |-> next_page]

\* flask_login login_required: an anonymous requester is sent to the login view, with
\* the URL asked for (written as its route here) as next
LoginRedirect(c, route) ==
    RedirectToLogin(c, route, "Please log in to access this page.", "/" \o route)

logout(c) ==
    /\ Ready(c)
    /\ UNCHANGED <<phase, db, pending>>
    /\ IF ~is_authenticated(c)
       THEN /\ resp' = LoginRedirect(c, "logout")
            /\ UNCHANGED session
       ELSE /\ session' = [session EXCEPT ![c] = Anonymous]
            /\ resp' = Response(c, "logout", "redirect", "home", "You have been logged out.")

\* ---------------------------------------------------------------- uploads
\* A file name is a sequence of one-character strings.
Upper == <<"A", "B", "C", "D", "E", "F", "G", "H", "I", "J", "K", "L", "M",
           "N", "O", "P", "Q", "R", "S", "T", "U", "V", "W", "X", "Y", "Z">>
LowerCase == <<"a", "b", "c", "d", "e", "f", "g", "h", "i", "j", "k", "l", "m",
               "n", "o", "p", "q", "r", "s", "t", "u", "v", "w", "x", "y", "z">>

lower(ch) == IF \E i \in DOMAIN Upper : Upper[i] = ch
             THEN LowerCase[CHOOSE i \in DOMAIN Upper : Upper[i] = ch]
             ELSE ch
LowerStr(f) == [i \in DOMAIN f |-> lower(f[i])]

\* Config.ALLOWED_EXTENSIONS
ALLOWED_EXTENSIONS == {<<"p", "n", "g">>, <<"j", "p", "g">>, <<"j", "p", "e", "g">>, <<"g", "i", "f">>}

Dots(f) == {i \in DOMAIN f : f[i] = "."}
\* filename.rsplit('.', 1)[1]
Extension(f) ==
    LET LastDot == CHOOSE i \in Dots(f) : \A j \in Dots(f) : j <= i
    IN SubSeq(f, LastDot + 1, Len(f))

allowed_file_without_dot(filename) ==
    LowerStr(IF Dots(filename) = {} THEN filename ELSE Extension(filename))
        \in ALLOWED_EXTENSIONS

\* lines 152-155
allowed_file(filename) ==
    /\ Dots(filename) # {}
    /\ LowerStr(Extension(filename)) \in ALLOWED_EXTENSIONS

\* werkzeug secure_filename on ASCII input: path separators become blanks, blank
\* runs join the words with "_", other characters outside [A-Za-z0-9_.-] are
\* dropped, and leading and trailing dots and underscores are stripped.
FilenameChar(ch) == ch \in Range(Upper) \cup Range(LowerCase) \cup {"_", ".", "-"}
                    \cup {"0", "1", "2", "3", "4", "5", "6", "7", "8", "9"}
Blank(ch) == ch \in {" ", "/"}
Select(f, Keep(_)) ==
    LET idx == SelectSeq([i \in DOMAIN f |-> i], Keep)
    IN [k \in DOMAIN idx |-> f[idx[k]]]
JoinWords(f) ==
    LET keep(i) == \/ ~Blank(f[i])
                   \/ /\ i < Len(f) /\ ~Blank(f[i + 1])
                      /\ \E j \in 1..(i - 1) : ~Blank(f[j])
        g == Select(f, keep)
    IN [i \in DOMAIN g |-> IF Blank(g[i]) THEN "_" ELSE g[i]]
Strip(f) ==
    LET inner == {i \in DOMAIN f : f[i] \notin {".", "_"}}
    IN IF inner = {} THEN <<>>
       ELSE SubSeq(f, CHOOSE i \in inner : \A j \in inner : i <= j,
                      CHOOSE i \in inner : \A j \in inner : j <= i)
secure_filename(f) ==
    LET joined == JoinWords(f)
        ok(i) == FilenameChar(joined[i])
    IN Strip(Select(joined, ok))

\* ---------------------------------------------------------------- catalog
\* The texts of a product (name, category, material, description) are sequences of
\* one-character strings.
CategoryChoices ==
    {<<"R", "i", "n", "g">>,
     <<"N", "e", "c", "k", "l", "a", "c", "e">>,
     <<"E", "a", "r", "r", "i", "n", "g">>,
     <<"B", "r", "a", "c", "e", "l", "e", "t">>,
     <<"P", "e", "n", "d", "a", "n", "t">>}

\* ProductForm; the price is in cents, so NumberRange(min=0.01) is price >= 1
ProductFormValid(form) ==
    /\ DataRequired(form.name) /\ Len(form.name) <= 100
    /\ form.category \in CategoryChoices
    /\ DataRequired(form.material) /\ Len(form.material) <= 50
    /\ form.price >= 1
    /\ DataRequired(form.description)

ProductIds == {p.id : p \in products}
ProductById(pid) == CHOOSE p \in products : p.id = pid
\* SQLite rowid of an INSERT: one more than the largest id in the table
NextProductId == IF products = {} THEN 1
                 ELSE 1 + (CHOOSE i \in ProductIds : \A j \in ProductIds : j <= i)

Product(id, form, filename) ==
    [id |-> id, name |-> form.name, category |-> form.category, material |-> form.material,
     price |-> form.price, description |-> form.description, image_filename |-> filename]

\* ---------------------------------------------------------------- catalog queries
\* A query parameter: absent, a text, or (for type=float) a text that float() turns
\* into a number or refuses.
NoArg == [kind |-> "absent"]
TextArg(text) == [kind |-> "text", value |-> text]
NumberArg(n) == [kind |-> "number", value |-> n]
JunkArg == [kind |-> "junk"]

\* `if category:` and the like: the parameter is there and not empty
Truthy(arg) == arg.kind = "text" /\ arg.value # <<>>
\* request.args.get(name, type=float) `is not None`
IsNumber(arg) == arg.kind = "number"

\* SQL LIKE: % stands for any run of characters, _ for any one character
RECURSIVE like(_, _)
like(text, pattern) ==
    IF pattern = <<>> THEN text = <<>>
    ELSE IF Head(pattern) = "%"
    THEN like(text, Tail(pattern)) \/ (text # <<>> /\ like(Tail(text), pattern))
    ELSE /\ text # <<>>
         /\ Head(pattern) = "_" \/ Head(pattern) = Head(text)
         /\ like(Tail(text), Tail(pattern))

\* column.ilike(pattern): lower(column) LIKE lower(pattern)
ilike(text, pattern) == like(LowerStr(text), LowerStr(pattern))

\* f'%{search_query}%'
SearchPattern(search_query) == <<"%">> \o search_query \o <<"%">>

\* lines 1417-1420
PriceInRange(price, min_price, max_price) ==
    /\ IsNumber(min_price) => price >= min_price.value
    /\ IsNumber(max_price) => price <= max_price.value

\* lines 1413-1425: the filters that products_query has collected
Filtered(product, args) ==
    /\ Truthy(args.category) => product.category = args.category.value
    /\ Truthy(args.material) => product.material = args.material.value
    /\ PriceInRange(product.price, args.min_price, args.max_price)
    /\ Truthy(args.search) =>
         LET pattern == SearchPattern(args.search.value)
         IN \/ ilike(product.name, pattern)
            \/ ilike(product.description, pattern)
            \/ ilike(product.category, pattern)
            \/ ilike(product.material, pattern)

\* the characters in code-point order, for ORDER BY on a text column
CodePoints ==
    <<" ", "%", "-", ".", "/", "0", "1", "2", "3", "4", "5", "6", "7", "8", "9">>
    \o Upper \o <<"_">> \o LowerCase
Ord(ch) == CHOOSE i \in DOMAIN CodePoints : CodePoints[i] = ch
TextLess(a, b) ==
    \E k \in 1..(Len(a) + 1) :
        /\ \A i \in 1..(k - 1) : i <= Len(b) /\ a[i] = b[i]
        /\ \/ k = Len(a) + 1 /\ Len(b) >= k
           \/ k <= Len(a) /\ k <= Len(b) /\ Ord(a[k]) < Ord(b[k])
\* order_by(Product.name); rows of equal name come in the order of the table scan
Before(p, q) == TextLess(p.name, q.name) \/ (p.name = q.name /\ p.id < q.id)
RECURSIVE OrderByName(_)
OrderByName(rows) ==
    IF rows = {} THEN <<>>
    ELSE LET first == CHOOSE p \in rows : \A q \in rows \ {p} : Before(p, q)
         IN <<first>> \o OrderByName(rows \ {first})

\* the products route: the page shows the listing, the categories and materials on
\* offer, and the filters as the request gave them
list_products(c, args) ==
    /\ Ready(c)
    /\ resp' = [client |-> c, route |-> "products", kind |-> "render", to |-> "products",
                flash |-> "",
                products |-> OrderByName({p \in products : Filtered(p, args)}),
                categories |-> {p.category : p \in products},
                materials |-> {p.material : p \in products},
                query |-> [args EXCEPT !.min_price = IF IsNumber(@) THEN @ ELSE NoArg,
                                       !.max_price = IF IsNumber(@) THEN @ ELSE NoArg]]
    /\ UNCHANGED <<phase, db, session, pending>>

\* ---------------------------------------------------------------- role gate
admin_required_any_user(c) ==
    IF ~is_authenticated(c) THEN "login" ELSE "run"

\* admin_required on top of login_required: where the request goes
admin_required(c) ==
    IF ~is_authenticated(c) THEN "login"
    ELSE IF ~current_user(c).is_admin THEN "home"
    ELSE "run"

\* the response of a request the gate turned away; nothing else changes
Denied(c, route) ==
    /\ resp' = IF admin_required(c) = "login"
               THEN LoginRedirect(c, route)
               ELSE Response(c, route, "redirect", "home",
                             "You do not have permission to access this page.")
    /\ UNCHANGED <<phase, db, session, pending>>

AdminViews == {"admin_dashboard", "admin_products", "admin_orders", "admin_users"}

\* admin_dashboard, admin_products, admin_orders, admin_users: read-only pages
admin_view(c, route) ==
    /\ Ready(c)
    /\ IF admin_required(c) # "run"
       THEN Denied(c, route)
       ELSE /\ resp' = Response(c, route, "render", route, "")
            /\ UNCHANGED <<phase, db, session, pending>>

add_product(c, form, image) ==
    /\ Ready(c)
    /\ IF admin_required(c) # "run"
       THEN Denied(c, "add_product")
       ELSE /\ UNCHANGED <<phase, users, orders, order_items, messages_tbl, session, pending>>
            /\ IF form = NoForm \/ ~ProductFormValid(form)
               THEN /\ resp' = Response(c, "add_product", "render", "add_product", "")
                    /\ UNCHANGED <<products, files>>
               ELSE IF image # NoFile /\ allowed_file(image)
               THEN /\ RowCount < MaxRows /\ NextProductId <= MaxRows
                    /\ files' = files \cup {secure_filename(image)}
                    /\ products' = products \cup {Product(NextProductId, form, secure_filename(image))}
                    /\ resp' = Response(c, "add_product", "redirect", "admin_products",
                                        "Product added successfully!")
               ELSE /\ resp' = Response(c, "add_product", "render", "add_product",
                                        "Invalid image file or no file uploaded. Please upload a PNG, JPG, JPEG, or GIF.")
                    /\ UNCHANGED <<products, files>>

NotFound_page_shown(c, route) == Response(c, route, "render", route, "")

\* get_or_404 found no row: the 404 page
NotFound(c, route) == Response(c, route, "error", "404", "")

Rollback_keeps_flushed(committed, in_transaction) == in_transaction

\* A request that ends without commit: the session is removed with the request, and
\* what was flushed inside its transaction is rolled back.
Rollback(committed, in_transaction) == committed

\* edit_product assigns the form's fields to the product (lines 1616-1620) before it
\* looks at the file; the return for a refused file (1636-1637) comes before the
\* commit of line 1638.
edit_product(c, product_id, form, image) ==
    /\ Ready(c)
    /\ IF admin_required(c) # "run"
       THEN Denied(c, "edit_product")
       ELSE /\ UNCHANGED <<phase, users, orders, order_items, messages_tbl, session, pending>>
            /\ IF product_id \notin ProductIds
               THEN /\ resp' = NotFound(c, "edit_product")
                    /\ UNCHANGED <<products, files>>
               ELSE IF form = NoForm \/ ~ProductFormValid(form)
               THEN /\ resp' = Response(c, "edit_product", "render", "add_product", "")
                    /\ UNCHANGED <<products, files>>
               ELSE LET product == ProductById(product_id)
                        edited == Product(product_id, form, product.image_filename)
                    IN IF image = NoFile
                       THEN /\ products' = (products \ {product}) \cup {edited}
                            /\ UNCHANGED files
                            /\ resp' = Response(c, "edit_product", "redirect", "admin_products",
                                                "Product updated successfully!")
                       ELSE IF allowed_file(image)
                       THEN /\ files' = (IF product.image_filename # NoFile
                                         THEN files \ {product.image_filename} ELSE files)
                                        \cup {secure_filename(image)}
                            /\ products' = (products \ {product})
                                           \cup {[edited EXCEPT !.image_filename = secure_filename(image)]}
                            /\ resp' = Response(c, "edit_product", "redirect", "admin_products",
                                                "Product updated successfully!")
                       ELSE /\ resp' = Response(c, "edit_product", "render", "add_product",
                                                "Invalid image file. Please upload a PNG, JPG, JPEG, or GIF.")
                            /\ products' = Rollback(products, (products \ {product}) \cup {edited})
                            /\ UNCHANGED files

ItemsOfProduct_not_loaded(pid) == {}

\* The rows of order_item that the relationship Product.orders loads
ItemsOfProduct(pid) == {i \in DOMAIN order_items : order_items[i].product_id = pid}

delete_product_cascade(c, product_id) ==
    /\ Ready(c)
    /\ IF admin_required(c) # "run"
       THEN Denied(c, "delete_product")
       ELSE /\ UNCHANGED <<phase, users, orders, messages_tbl, session, pending>>
            /\ IF product_id \notin ProductIds
               THEN /\ resp' = NotFound(c, "delete_product")
                    /\ UNCHANGED <<products, files, order_items>>
               ELSE LET product == ProductById(product_id)
                        keep(i) == order_items[i].product_id # product_id
                    IN /\ files' = IF product.image_filename # NoFile
                                   THEN files \ {product.image_filename} ELSE files
                       /\ order_items' = Select(order_items, keep)
                       /\ products' = products \ {product}
                       /\ resp' = Response(c, "delete_product", "redirect", "admin_products",
                                           "Product deleted successfully!")

\* delete_product: the image file goes first; the flush then blanks the product_id of
\* the product's order items, which the NOT NULL column refuses, so the commit fails
\* and rolls back when the product has order items.
delete_product(c, product_id) ==
    /\ Ready(c)
    /\ IF admin_required(c) # "run"
       THEN Denied(c, "delete_product")
       ELSE /\ UNCHANGED <<phase, users, orders, order_items, messages_tbl, session, pending>>
            /\ IF product_id \notin ProductIds
               THEN /\ resp' = NotFound(c, "delete_product")
                    /\ UNCHANGED <<products, files>>
               ELSE LET product == ProductById(product_id)
                    IN /\ files' = IF product.image_filename # NoFile
                                   THEN files \ {product.image_filename} ELSE files
                       /\ IF ItemsOfProduct(product_id) # {}
                          THEN /\ products' = products
                               /\ resp' = Response(c, "delete_product", "error", "500", "")
                          ELSE /\ products' = products \ {product}
                               /\ resp' = Response(c, "delete_product", "redirect", "admin_products",
                                                   "Product deleted successfully!")

\* ---------------------------------------------------------------- orders
\* the text of a sequence of characters, as an f-string interpolates it
RECURSIVE Join(_)
Join(text) == IF text = <<>> THEN "" ELSE Head(text) \o Join(Tail(text))

QuantityChoices == {"1", "2", "3", "4", "5"}
\* int(form.quantity.data) on a one-digit string
int(s) ==
    CASE s = "0" -> 0 [] s = "1" -> 1 [] s = "2" -> 2 [] s = "3" -> 3 [] s = "4" -> 4
      [] s = "5" -> 5 [] s = "6" -> 6 [] s = "7" -> 7 [] s = "8" -> 8 [] s = "9" -> 9

OrderFormValid_any_quantity(form) ==
    /\ DataRequired(form.customer_name) /\ Len(form.customer_name) <= 100
    /\ DataRequired(form.customer_address) /\ Len(form.customer_address) <= 200
    /\ DataRequired(form.customer_contact) /\ Len(form.customer_contact) <= 20

\* OrderForm: the customer's texts are sequences of one-character strings
OrderFormValid(form) ==
    /\ DataRequired(form.customer_name) /\ Len(form.customer_name) <= 100
    /\ DataRequired(form.customer_address) /\ Len(form.customer_address) <= 200
    /\ DataRequired(form.customer_contact) /\ Len(form.customer_contact) <= 20
    /\ form.quantity \in QuantityChoices

OrderStatuses == {"Pending", "Processing", "Shipped", "Delivered", "Cancelled"}

OrderTotal_unit_price(product, quantity) == product.price

\* line 1449
OrderTotal(product, quantity) == product.price * quantity

InitialStatus_lowercase == "pending"

\* line 1457
InitialStatus == "Pending"

product_detail(c, product_id, form) ==
    /\ Ready(c)
    /\ UNCHANGED <<phase, users, products, files, messages_tbl, session, pending>>
    /\ IF product_id \notin ProductIds
       THEN /\ resp' = NotFound(c, "product_detail")
            /\ UNCHANGED <<orders, order_items>>
       ELSE IF form = NoForm \/ ~OrderFormValid(form)
       THEN /\ resp' = Response(c, "product_detail", "render", "product_detail", "")
            /\ UNCHANGED <<orders, order_items>>
       ELSE IF ~is_authenticated(c)
       THEN /\ resp' = RedirectToLogin(c, "product_detail", "Please log in to place an order.",
                                       ProductUrl(product_id))
            /\ UNCHANGED <<orders, order_items>>
       ELSE LET product == ProductById(product_id)
                quantity == int(form.quantity)
                total_price == OrderTotal(product, quantity)
                order == [user_id |-> session[c],
                          total_price |-> total_price,
                          customer_name |-> form.customer_name,
                          customer_address |-> form.customer_address,
                          customer_contact |-> form.customer_contact,
                          status |-> InitialStatus]
                order_item == [order_id |-> Len(orders) + 1,
                               product_id |-> product.id,
                               quantity |-> quantity,
                               price_at_order |-> product.price]
            IN /\ RowCount < MaxRows
               /\ orders' = Append(orders, order)
               /\ order_items' = Append(order_items, order_item)
               /\ resp' = Response(c, "product_detail", "redirect", "user_profile",
                                   "Your order for " \o ToString(quantity) \o " x " \o Join(product.name)
                                       \o " has been placed successfully!")

\* product_detail, lines 1448-1460, in a request that fails after db.session.flush()
\* has sent the INSERT of the order and before the commit of line 1469
product_detail_fails(c, product_id, form) ==
    /\ Ready(c)
    /\ product_id \in ProductIds
    /\ form # NoForm /\ OrderFormValid(form)
    /\ is_authenticated(c)
    /\ LET product == ProductById(product_id)
           order == [user_id |-> session[c],
                     total_price |-> OrderTotal(product, int(form.quantity)),
                     customer_name |-> form.customer_name,
                     customer_address |-> form.customer_address,
                     customer_contact |-> form.customer_contact,
                     status |-> InitialStatus]
       IN orders' = Rollback(orders, Append(orders, order))
    /\ order_items' = order_items
    /\ resp' = Response(c, "product_detail", "error", "500", "")
    /\ UNCHANGED <<phase, users, products, files, messages_tbl, session, pending>>

StatusAccepted_any_string(order, new_status) == new_status # NoStatus

StatusRank(status) ==
    CASE status = "Pending" -> 1 [] status = "Processing" -> 2 [] status = "Shipped" -> 3
      [] status = "Delivered" -> 4 [] OTHER -> 5
StatusAccepted_forward_only(order, new_status) ==
    new_status \in OrderStatuses /\ StatusRank(new_status) >= StatusRank(order.status)

\* line 1669: the statuses update_order_status accepts
StatusAccepted(order, new_status) == new_status \in OrderStatuses

\* as if the total were recomputed from the product's current price on every save
SetStatus_reprices(order_id, new_status) ==
    LET item == order_items[order_id]
        live == IF item.product_id \in ProductIds
                THEN ProductById(item.product_id).price * item.quantity
                ELSE orders[order_id].total_price
    IN [orders EXCEPT ![order_id].status = new_status, ![order_id].total_price = live]

\* line 1670: the order table after order.status = new_status
SetStatus(order_id, new_status) == [orders EXCEPT ![order_id].status = new_status]

update_order_status(c, order_id, new_status) ==
    /\ Ready(c)
    /\ IF admin_required(c) # "run"
       THEN Denied(c, "update_order_status")
       ELSE /\ UNCHANGED <<phase, users, products, files, order_items, messages_tbl, session, pending>>
            /\ IF order_id \notin DOMAIN orders
               THEN /\ resp' = NotFound(c, "update_order_status")
                    /\ UNCHANGED orders
               ELSE IF StatusAccepted(orders[order_id], new_status)
               THEN /\ orders' = SetStatus(order_id, new_status)
                    /\ resp' = Response(c, "update_order_status", "redirect", "admin_orders",
                                        "Order " \o ToString(order_id) \o " status updated to "
                                            \o new_status \o ".")
               ELSE /\ resp' = Response(c, "update_order_status", "redirect", "admin_orders",
                                        "Invalid status provided.")
                    /\ UNCHANGED orders

\* Two update_order_status requests may be served by two threads at once. A request
\* then runs in two steps: it loads the order (line 1666) and, later, assigns the
\* status and commits (lines 1668-1675). Between the two the other request may
\* load or commit.
InFlight(c) ==
    "method" \in DOMAIN pending[c] /\ pending[c].method = "update_order_status"

update_order_status_load(c, order_id, new_status) ==
    /\ Ready(c)
    /\ IF admin_required(c) # "run"
       THEN Denied(c, "update_order_status")
       ELSE /\ UNCHANGED <<phase, db, session>>
            /\ IF order_id \notin DOMAIN orders
               THEN /\ resp' = NotFound(c, "update_order_status")
                    /\ UNCHANGED pending
               ELSE /\ pending' = [pending EXCEPT ![c] =
                                        [method |-> "update_order_status",
                                         order_id |-> order_id, status |-> new_status,
                                         loaded |-> orders[order_id].status]]
                    /\ UNCHANGED resp

Flush_checks_version(order_id, loaded, new_status) ==
    IF new_status # loaded /\ orders[order_id].status = loaded
    THEN SetStatus(order_id, new_status) ELSE orders

\* lines 1670-1671: the commit flushes the order held by the session. The unit of
\* work emits UPDATE "order" SET status=? WHERE id=? only for an attribute whose
\* value differs from the one the session loaded, and the UPDATE does not look at
\* the stored status.
Flush(order_id, loaded, new_status) ==
    IF new_status # loaded THEN SetStatus(order_id, new_status) ELSE orders

update_order_status_commit(c) ==
    /\ phase = "serving"
    /\ InFlight(c)
    /\ pending' = [pending EXCEPT ![c] = NoReq]
    /\ UNCHANGED <<phase, users, products, files, order_items, messages_tbl, session>>
    /\ LET req == pending[c]
       IN IF StatusAccepted(orders[req.order_id], req.status)
          THEN /\ orders' = Flush(req.order_id, req.loaded, req.status)
               /\ resp' = Response(c, "update_order_status", "redirect", "admin_orders",
                                   "Order " \o ToString(req.order_id) \o " status updated to "
                                       \o req.status \o ".")
          ELSE /\ resp' = Response(c, "update_order_status", "redirect", "admin_orders",
                                   "Invalid status provided.")
               /\ UNCHANGED orders

\* ---------------------------------------------------------------- messaging
\* A message text is a sequence of one-character strings.
MessageFormValid_no_upper_limit(form) == DataRequired(form.message_text)

\* MessageForm: DataRequired and Length(min=1, max=500)
MessageFormValid(form) ==
    /\ DataRequired(form.message_text)
    /\ Len(form.message_text) \in 1..500

Message_parties_swapped(sender_id, receiver_id, text) ==
    [sender_id |-> receiver_id, receiver_id |-> sender_id, message_text |-> text,
     timestamp |-> Len(messages_tbl) + 1, is_read |-> FALSE]

\* Message(...) with the column defaults: timestamp, is_read=False
Message(sender_id, receiver_id, text) ==
    [sender_id |-> sender_id, receiver_id |-> receiver_id, message_text |-> text,
     timestamp |-> Len(messages_tbl) + 1, is_read |-> FALSE]

\* order_by(Message.timestamp): the rows by ascending timestamp
RECURSIVE OrderByTimestamp(_)
OrderByTimestamp(rows) ==
    IF rows = {} THEN <<>>
    ELSE LET m == CHOOSE x \in rows : \A y \in rows : x.timestamp <= y.timestamp
         IN <<m>> \o OrderByTimestamp(rows \ {m})

Conversation_received_only(tbl, a, b) ==
    OrderByTimestamp({m \in Range(tbl) : m.sender_id = b /\ m.receiver_id = a})

\* lines 1539-1542 and 1708-1711: the messages between a and b, either direction
Conversation(tbl, a, b) ==
    OrderByTimestamp({m \in Range(tbl) :
                        \/ m.sender_id = a /\ m.receiver_id = b
                        \/ m.sender_id = b /\ m.receiver_id = a})

messages(c, form) ==
    /\ Ready(c)
    /\ UNCHANGED <<phase, users, products, files, orders, order_items, session, pending>>
    /\ IF ~is_authenticated(c)
       THEN /\ resp' = LoginRedirect(c, "messages")
            /\ UNCHANGED messages_tbl
       ELSE IF AdminIds = {}
       THEN /\ resp' = Response(c, "messages", "redirect", "home",
                                "Admin user not found. Messaging not available.")
            /\ UNCHANGED messages_tbl
       ELSE IF form # NoForm /\ MessageFormValid(form)
       THEN /\ RowCount < MaxRows
            /\ messages_tbl' = Append(messages_tbl,
                                      Message(session[c], First(AdminIds), form.message_text))
            /\ resp' = Response(c, "messages", "redirect", "messages",
                                "Your message has been sent to the admin!")
       ELSE /\ resp' = [client |-> c, route |-> "messages", kind |-> "render",
                        to |-> "messages", flash |-> "",
                        messages |-> Conversation(messages_tbl, session[c], First(AdminIds))]
            /\ UNCHANGED messages_tbl

MarksRead_whole_inbox(msg, selected, me) == msg.receiver_id = me /\ ~msg.is_read

\* lines 1713-1715: the rows the admin's view of a conversation marks read
MarksRead(msg, selected, me) ==
    msg.sender_id = selected /\ msg.receiver_id = me /\ ~msg.is_read

MarkRead_toggles(tbl, user_id, me) ==
    IF user_id # 0 /\ user_id \in DOMAIN users /\ ~users[user_id].is_admin
    THEN [i \in DOMAIN tbl |->
            IF tbl[i].sender_id = user_id /\ tbl[i].receiver_id = me
            THEN [tbl[i] EXCEPT !.is_read = ~tbl[i].is_read] ELSE tbl[i]]
    ELSE tbl

\* lines 1705-1716: the message table after the view of the conversation with user_id
MarkRead(tbl, user_id, me) ==
    IF user_id # 0 /\ user_id \in DOMAIN users /\ ~users[user_id].is_admin
    THEN [i \in DOMAIN tbl |->
            IF MarksRead(tbl[i], user_id, me) THEN [tbl[i] EXCEPT !.is_read = TRUE] ELSE tbl[i]]
    ELSE tbl

\* the user column of the join of User and Message on "the user is the sender or the
\* receiver", filtered to the messages me sent or received: one row per (user, message)
\* pair, users by id
RECURSIVE JoinedUsers(_, _, _)
JoinedUsers(tbl, me, uid) ==
    IF uid > Len(users) THEN <<>>
    ELSE LET joined == {i \in DOMAIN tbl :
                          /\ uid \in {tbl[i].sender_id, tbl[i].receiver_id}
                          /\ me \in {tbl[i].sender_id, tbl[i].receiver_id}}
         IN [i \in 1..Cardinality(joined) |-> uid] \o JoinedUsers(tbl, me, uid + 1)

Distinct_keeps_all(ids) == ids

\* .distinct(): each user once
RECURSIVE Distinct(_)
Distinct(ids) ==
    IF ids = <<>> THEN <<>>
    ELSE LET rest == Distinct(SubSeq(ids, 1, Len(ids) - 1))
         IN IF ids[Len(ids)] \in Range(rest) THEN rest ELSE Append(rest, ids[Len(ids)])

\* lines 1694-1699: the users the admin has exchanged messages with, admins left out
RECURSIVE NotAdmin(_)
NotAdmin(ids) ==
    IF ids = <<>> THEN <<>>
    ELSE IF users[ids[1]].is_admin THEN NotAdmin(Tail(ids))
    ELSE <<ids[1]>> \o NotAdmin(Tail(ids))

users_with_messages(tbl, me) == NotAdmin(Distinct(JoinedUsers(tbl, me, 1)))

\* lines 1701-1711: selected_user (0 for None) and the conversation with that user
selected_user(user_id) == IF user_id # 0 /\ user_id \in DOMAIN users THEN user_id ELSE 0

messages_with_selected_user(tbl, user_id, me) ==
    IF selected_user(user_id) # 0 /\ ~users[user_id].is_admin
    THEN Conversation(tbl, me, user_id) ELSE <<>>

\* user_id 0 stands for a request without user_id (or with user_id=0, which the
\* handler treats alike)
admin_messages(c, user_id, form) ==
    /\ Ready(c)
    /\ IF admin_required(c) # "run"
       THEN Denied(c, "admin_messages")
       ELSE /\ UNCHANGED <<phase, users, products, files, orders, order_items, session, pending>>
            /\ LET marked == MarkRead(messages_tbl, user_id, session[c])
               IN IF form # NoForm /\ MessageFormValid(form)
                     /\ user_id # 0 /\ user_id \in DOMAIN users
                  THEN /\ RowCount < MaxRows
                       /\ messages_tbl' = Append(marked,
                                                 Message(session[c], user_id, form.message_text))
                       /\ resp' = Response(c, "admin_messages", "redirect", "admin_messages",
                                           "Message sent to " \o users[user_id].username \o "!")
                  ELSE /\ messages_tbl' = marked
                       /\ resp' = [client |-> c, route |-> "admin_messages", kind |-> "render",
                                   to |-> "admin_messages", flash |-> "",
                                   users_with_messages |->
                                       users_with_messages(messages_tbl, session[c]),
                                   selected_user |-> selected_user(user_id),
                                   messages |->
                                       messages_with_selected_user(marked, user_id, session[c])]

\* ---------------------------------------------------------------- specification
Init ==
    /\ phase = "boot"
    /\ users = <<>>
    /\ products = {}
    /\ files = {}
    /\ orders = <<>>
    /\ order_items = <<>>
    /\ messages_tbl = <<>>
    /\ session = [c \in Clients |-> Anonymous]
    /\ pending = [c \in Clients |-> NoReq]
    /\ resp = Response("", "", "", "", "")

\* The requests, with their inputs drawn from the sets of the record `in`.
NextPages(in) == IF "next_pages" \in DOMAIN in THEN in.next_pages ELSE {NoNext}

AccountRequests(in) ==
    \/ \E c \in in.clients : \E form \in in.signup_forms : signup(c, form)
    \/ \E c \in in.clients : \E salt \in in.salts : signup_commit(c, salt)
    \/ \E c \in in.clients : \E form \in in.login_forms : \E next_page \in NextPages(in) :
            login(c, form, next_page)
    \/ \E c \in in.clients : logout(c)

CatalogRequests(in) ==
    \/ \E c \in in.clients : \E form \in in.product_forms : \E image \in in.images :
            add_product(c, form, image)
    \/ \E c \in in.clients : \E pid \in in.product_ids : \E form \in in.product_forms :
            \E image \in in.images : edit_product(c, pid, form, image)
    \/ \E c \in in.clients : \E pid \in in.product_ids : delete_product(c, pid)

OrderRequests(in) ==
    \/ \E c \in in.clients : \E pid \in in.product_ids : \E form \in in.order_forms :
            product_detail(c, pid, form)
    \/ \E c \in in.clients : \E oid \in in.order_ids : \E status \in in.statuses :
            update_order_status(c, oid, status)

MessageRequests(in) ==
    \/ \E c \in in.clients : \E form \in in.message_forms : messages(c, form)
    \/ \E c \in in.clients : \E uid \in in.user_ids : \E form \in in.message_forms :
            admin_messages(c, uid, form)

ViewRequests(in) ==
    \E c \in in.clients : \E route \in AdminViews : admin_view(c, route)

Startup(in) ==
    \/ \E salt \in in.salts : main(salt)
    \/ \E salt \in in.salts : create_tables(salt)

\* ---- the forms and files the requests carry
AliceSignup == [username |-> "alice", email |-> Addr("alice", "x.com"),
                password |-> "secret1", confirm_password |-> "secret1"]
AdminLogin == [email |-> AdminEmail, password |-> "adminpassword"]
AliceLogin == [email |-> Addr("alice", "x.com"), password |-> "secret1"]
RingForm == [name |-> <<"G", "o", "l", "d", " ", "R", "i", "n", "g">>, category |-> <<"R", "i", "n", "g">>,
             material |-> <<"G", "o", "l", "d">>, price |-> 12000,
             description |-> <<"A", " ", "r", "i", "n", "g">>]
RingFormDearer == [RingForm EXCEPT !.price = 15000]
NecklaceForm == [name |-> <<"C", "h", "a", "i", "n">>,
                 category |-> <<"N", "e", "c", "k", "l", "a", "c", "e">>,
                 material |-> <<"S", "i", "l", "v", "e", "r">>, price |-> 15000,
                 description |-> <<"G", "o", "l", "d", " ", "p", "l", "a", "t", "e", "d">>]
RingPng == <<"r", ".", "p", "n", "g">>
OrderOf(q) == [customer_name |-> <<"A", "n", "n">>,
               customer_address |-> <<"1", " ", "M", "a", "i", "n">>,
               customer_contact |-> <<"5", "5", "5">>, quantity |-> q]
Text(n, ch) == [i \in 1..n |-> ch]
BandJpg == <<"b", ".", "j", "p", "g">>
Hello == [message_text |-> <<"h", "i">>]

\* ---- the whole application: one client, one or two forms of each kind
AppInputs ==
    [clients |-> {"c1"},
     salts |-> {"s1"},
     signup_forms |-> {AliceSignup},
     login_forms |-> {AdminLogin, AliceLogin},
     product_forms |-> {RingForm, RingFormDearer},
     images |-> {RingPng},
     product_ids |-> 1..MaxRows,
     order_forms |-> {OrderOf("3")},
     order_ids |-> 1..MaxRows,
     statuses |-> {"Shipped", "Lost"},
     user_ids |-> 0..2,
     message_forms |-> {Hello, NoForm}]

Next ==
    \/ Startup(AppInputs)
    \/ AccountRequests(AppInputs)
    \/ ViewRequests(AppInputs)
    \/ CatalogRequests(AppInputs)
    \/ OrderRequests(AppInputs)
    \/ MessageRequests(AppInputs)

Spec == Init /\ [][Next]_vars

\* ---- accounts: two clients whose signups and logins interleave
AccountInputs ==
    [clients |-> Clients,
     salts |-> Salts,
     signup_forms |-> SignupForms \cup {NoForm},
     login_forms |-> LoginForms \cup {NoForm}]

NextAccounts == Startup(AccountInputs) \/ AccountRequests(AccountInputs)

SpecAccounts == Init /\ [][NextAccounts]_vars

\* ---- placing orders: two prices, a quantity inside the choices, the largest, and one beyond
OrderInputs ==
    [clients |-> {"c1"},
     salts |-> {"s1"},
     signup_forms |-> {AliceSignup},
     login_forms |-> {AdminLogin, AliceLogin},
     product_forms |-> {RingForm, RingFormDearer},
     images |-> {RingPng},
     product_ids |-> 1..MaxRows,
     order_forms |-> {OrderOf(q) : q \in {"3", "5", "6"}} \cup {NoForm},
     order_ids |-> 1..MaxRows,
     statuses |-> {"Shipped"}]

NextOrders ==
    \/ Startup(OrderInputs)
    \/ AccountRequests(OrderInputs)
    \/ CatalogRequests(OrderInputs)
    \/ OrderRequests(OrderInputs)

SpecOrders == Init /\ [][NextOrders]_vars

\* ---- order status: every status an admin can send, valid or not
StatusInputs ==
    [clients |-> {"c1"},
     salts |-> {"s1"},
     signup_forms |-> {AliceSignup},
     login_forms |-> {AdminLogin, AliceLogin},
     product_forms |-> {RingForm},
     images |-> {RingPng},
     product_ids |-> 1..MaxRows,
     order_forms |-> {OrderOf("3")},
     order_ids |-> 1..MaxRows,
     statuses |-> OrderStatuses \cup {"Lost", NoStatus}]

NextStatus ==
    \/ Startup(StatusInputs)
    \/ AccountRequests(StatusInputs)
    \/ CatalogRequests(StatusInputs)
    \/ OrderRequests(StatusInputs)

SpecStatus == Init /\ [][NextStatus]_vars

\* ---- messaging: two regular users and the admin
MessagingInputs ==
    [clients |-> {"c1"},
     salts |-> {"s1"},
     signup_forms |-> {AliceSignup,
                       [AliceSignup EXCEPT !.username = "bob", !.email = Addr("bob", "x.com")]},
     login_forms |-> {AdminLogin, AliceLogin,
                      [AliceLogin EXCEPT !.email = Addr("bob", "x.com")]},
     user_ids |-> 0..4,
     message_forms |-> {Hello, [message_text |-> Text(0, "a")], NoForm}]

NextMessaging ==
    \/ Startup(MessagingInputs)
    \/ AccountRequests(MessagingInputs)
    \/ MessageRequests(MessagingInputs)

SpecMessaging == Init /\ [][NextMessaging]_vars

\* ---- the catalog: two products, and queries with every filter absent, empty and set
QueryArgs ==
    [category : {NoArg, TextArg(<<>>), TextArg(<<"R", "i", "n", "g">>)},
     material : {NoArg, TextArg(<<"G", "o", "l", "d">>)},
     min_price : {NoArg, JunkArg, NumberArg(12000), NumberArg(12001)},
     max_price : {NoArg, NumberArg(12000)},
     search : {NoArg, TextArg(<<>>), TextArg(<<"G", "O", "L", "D">>), TextArg(<<"g", "_", "l", "d">>)}]

CatalogInputs ==
    [clients |-> {"c1"},
     salts |-> {"s1"},
     login_forms |-> {AdminLogin},
     product_forms |-> {RingForm, NecklaceForm},
     images |-> {RingPng},
     product_ids |-> 1..MaxRows,
     queries |-> QueryArgs]

QueryRequests(in) ==
    \E c \in in.clients : \E args \in in.queries : list_products(c, args)

NextCatalog ==
    \/ Startup(CatalogInputs)
    \/ \E c \in CatalogInputs.clients : \E form \in CatalogInputs.login_forms :
            login(c, form, NoNext)
    \/ CatalogRequests(CatalogInputs)
    \/ QueryRequests(CatalogInputs)

SpecCatalog == Init /\ [][NextCatalog]_vars

\* ---- deleting products that were and were not ordered
AllProducts == [category |-> NoArg, material |-> NoArg, min_price |-> NoArg,
                max_price |-> NoArg, search |-> NoArg]

DeleteInputs ==
    [clients |-> {"c1"},
     salts |-> {"s1"},
     login_forms |-> {AdminLogin},
     product_forms |-> {RingForm, NecklaceForm},
     images |-> {RingPng, NoFile},
     product_ids |-> 1..MaxRows,
     order_forms |-> {OrderOf("3")},
     queries |-> {AllProducts, [AllProducts EXCEPT !.category = TextArg(<<"R", "i", "n", "g">>)]}]

NextDelete ==
    \/ Startup(DeleteInputs)
    \/ \E c \in DeleteInputs.clients : \E form \in DeleteInputs.login_forms :
            login(c, form, NoNext)
    \/ CatalogRequests(DeleteInputs)
    \/ \E c \in DeleteInputs.clients : \E pid \in DeleteInputs.product_ids :
            \E form \in DeleteInputs.order_forms : product_detail(c, pid, form)
    \/ QueryRequests(DeleteInputs)

SpecDelete == Init /\ [][NextDelete]_vars

\* ---- orders sent before logging in, and logins that carry a page to come back to
DeferInputs ==
    [clients |-> {"c1"},
     salts |-> {"s1"},
     signup_forms |-> {AliceSignup},
     login_forms |-> {AdminLogin, AliceLogin},
     next_pages |-> {NoNext, ProductUrl(1)},
     product_forms |-> {RingForm},
     images |-> {RingPng},
     product_ids |-> 1..MaxRows,
     order_forms |-> {OrderOf("3"), NoForm},
     order_ids |-> 1..MaxRows,
     statuses |-> {"Shipped"}]

NextDefer ==
    \/ Startup(DeferInputs)
    \/ AccountRequests(DeferInputs)
    \/ CatalogRequests(DeferInputs)
    \/ OrderRequests(DeferInputs)

SpecDefer == Init /\ [][NextDefer]_vars

\* ---- orders whose request may fail between the two INSERTs
AtomicInputs ==
    [clients |-> {"c1"},
     salts |-> {"s1"},
     signup_forms |-> {AliceSignup},
     login_forms |-> {AdminLogin, AliceLogin},
     product_forms |-> {RingForm},
     images |-> {RingPng},
     product_ids |-> 1..MaxRows,
     order_forms |-> {OrderOf("3"), OrderOf("5")},
     order_ids |-> 1..MaxRows,
     statuses |-> {"Shipped"}]

NextAtomic ==
    \/ Startup(AtomicInputs)
    \/ AccountRequests(AtomicInputs)
    \/ CatalogRequests(AtomicInputs)
    \/ OrderRequests(AtomicInputs)
    \/ \E c \in AtomicInputs.clients : \E pid \in AtomicInputs.product_ids :
            \E form \in AtomicInputs.order_forms : product_detail_fails(c, pid, form)

SpecAtomic == Init /\ [][NextAtomic]_vars

\* ---- order forms at and beyond each limit of OrderForm, one field at a time
OrderFormInputs ==
    [clients |-> {"c1"},
     salts |-> {"s1"},
     login_forms |-> {AdminLogin},
     product_forms |-> {RingForm},
     images |-> {RingPng},
     product_ids |-> 1..MaxRows,
     order_forms |->
        {OrderOf(q) : q \in {"0", "1", "5", "6"}}
        \cup {[OrderOf("3") EXCEPT !.customer_name = Text(n, "a")] : n \in {0, 100, 101}}
        \cup {[OrderOf("3") EXCEPT !.customer_name = Text(2, " ")]}
        \cup {[OrderOf("3") EXCEPT !.customer_address = Text(n, "a")] : n \in {0, 200, 201}}
        \cup {[OrderOf("3") EXCEPT !.customer_contact = Text(n, "5")] : n \in {0, 20, 21}}]

NextOrderForm ==
    \/ Startup(OrderFormInputs)
    \/ \E c \in OrderFormInputs.clients : \E form \in OrderFormInputs.login_forms :
            login(c, form, NoNext)
    \/ CatalogRequests(OrderFormInputs)
    \/ \E c \in OrderFormInputs.clients : \E pid \in OrderFormInputs.product_ids :
            \E form \in OrderFormInputs.order_forms : product_detail(c, pid, form)

SpecOrderForm == Init /\ [][NextOrderForm]_vars

\* ---- message texts at the limits of MessageForm, and one of blanks only
LengthInputs ==
    [clients |-> {"c1"},
     salts |-> {"s1"},
     signup_forms |-> {AliceSignup},
     login_forms |-> {AdminLogin, AliceLogin},
     user_ids |-> {0, 2},
     message_forms |-> {[message_text |-> Text(n, "a")] : n \in {0, 1, 500, 501}}
                       \cup {[message_text |-> Text(1, " ")], [message_text |-> Text(3, " ")], NoForm}]

NextLength ==
    \/ Startup(LengthInputs)
    \/ AccountRequests(LengthInputs)
    \/ MessageRequests(LengthInputs)

SpecLength == Init /\ [][NextLength]_vars

\* ---- every kind of request, the failing order placement included
RowsInputs ==
    [clients |-> {"c1"},
     salts |-> {"s1"},
     signup_forms |-> {AliceSignup},
     login_forms |-> {AdminLogin, AliceLogin},
     product_forms |-> {RingForm},
     images |-> {RingPng, BandJpg},
     product_ids |-> 1..MaxRows,
     order_forms |-> {OrderOf("3")},
     order_ids |-> {1},
     statuses |-> {"Shipped"},
     user_ids |-> {2},
     message_forms |-> {Hello}]

NextRows ==
    \/ Startup(RowsInputs)
    \/ AccountRequests(RowsInputs)
    \/ CatalogRequests(RowsInputs)
    \/ OrderRequests(RowsInputs)
    \/ MessageRequests(RowsInputs)
    \/ \E c \in RowsInputs.clients : \E pid \in RowsInputs.product_ids :
            \E form \in RowsInputs.order_forms : product_detail_fails(c, pid, form)

SpecRows == Init /\ [][NextRows]_vars

\* ---- two browser sessions of the admin changing the status of one order at once
ConcurrentInputs ==
    [clients |-> Clients,
     salts |-> {"s1"},
     login_forms |-> {AdminLogin},
     product_forms |-> {RingForm},
     images |-> {RingPng},
     product_ids |-> {1},
     order_forms |-> {OrderOf("3")},
     order_ids |-> 1..MaxRows,
     statuses |-> {"Pending", "Shipped", "Cancelled", "Lost"}]

NextConcurrent ==
    \/ Startup(ConcurrentInputs)
    \/ \E c \in ConcurrentInputs.clients : \E form \in ConcurrentInputs.login_forms :
            login(c, form, NoNext)
    \/ \E c \in ConcurrentInputs.clients : \E form \in ConcurrentInputs.product_forms :
            \E image \in ConcurrentInputs.images : add_product(c, form, image)
    \/ \E c \in ConcurrentInputs.clients : \E pid \in ConcurrentInputs.product_ids :
            \E form \in ConcurrentInputs.order_forms : product_detail(c, pid, form)
    \/ \E c \in ConcurrentInputs.clients : \E oid \in ConcurrentInputs.order_ids :
            \E status \in ConcurrentInputs.statuses : update_order_status_load(c, oid, status)
    \/ \E c \in ConcurrentInputs.clients : update_order_status_commit(c)

SpecConcurrent == Init /\ [][NextConcurrent]_vars

\* ---- uploads: no file, allowed and disallowed extensions, upper case, no dot at all
UploadInputs ==
    [clients |-> {"c1"},
     salts |-> {"s1"},
     login_forms |-> {AdminLogin},
     product_forms |-> {RingForm, RingFormDearer},
     images |-> {NoFile, RingPng, BandJpg,
                 <<"R", ".", "P", "N", "G">>,
                 <<"r", ".", "e", "x", "e">>,
                 <<"p", "n", "g">>,
                 <<"r", ".", "p", "n", "g", ".", "e", "x", "e">>},
     product_ids |-> 1..MaxRows]

NextUpload ==
    \/ Startup(UploadInputs)
    \/ \E c \in UploadInputs.clients : \E form \in UploadInputs.login_forms :
            login(c, form, NoNext)
    \/ CatalogRequests(UploadInputs)

SpecUpload == Init /\ [][NextUpload]_vars

\* ---- edits: a changed price, sent with no file, an image, and files that are refused
EditInputs ==
    [clients |-> {"c1"},
     salts |-> {"s1"},
     login_forms |-> {AdminLogin},
     product_forms |-> {RingForm, RingFormDearer},
     images |-> {NoFile, RingPng, BandJpg, <<"r", ".", "e", "x", "e">>},
     product_ids |-> 1..MaxRows]

NextEdit ==
    \/ Startup(EditInputs)
    \/ \E c \in EditInputs.clients : \E form \in EditInputs.login_forms :
            login(c, form, NoNext)
    \/ CatalogRequests(EditInputs)

SpecEdit == Init /\ [][NextEdit]_vars

\* ================================================================ claims
\* the routes under /admin/, and a request of client c to one of them
AdminRouteNames ==
    AdminViews \cup {"add_product", "edit_product", "delete_product",
                     "update_order_status", "admin_messages"}
AdminRoutes(c) ==
    LET in == [AppInputs EXCEPT !.clients = {c}]
    IN \/ ViewRequests(in)
       \/ CatalogRequests(in)
       \/ \E oid \in in.order_ids : \E status \in in.statuses : update_order_status(c, oid, status)
       \/ \E uid \in in.user_ids : \E form \in in.message_forms : admin_messages(c, uid, form)

\* C1: an order placed by a logged-in user on an existing product of price p with a
\* valid form of quantity q (1..5) appends exactly one Order (total_price = p * q,
\* status Pending, user_id of the acting user) and exactly one OrderItem for it
\* (quantity q, that product, price_at_order = p).
C1_PlaceOrder ==
    [][\A c \in Clients : \A pid \in ProductIds : \A q \in 1..5 :
         LET form == OrderOf(ToString(q))
             p == ProductById(pid).price
         IN (is_authenticated(c) /\ resp'.route = "product_detail"
             /\ product_detail(c, pid, form)) =>
               /\ orders' = Append(orders,
                      [user_id |-> session[c], total_price |-> p * q,
                       customer_name |-> form.customer_name,
                       customer_address |-> form.customer_address,
                       customer_contact |-> form.customer_contact,
                       status |-> "Pending"])
               /\ order_items' = Append(order_items,
                      [order_id |-> Len(orders) + 1, product_id |-> pid,
                       quantity |-> q, price_at_order |-> p])]_vars

\* price 120.00 and quantity 3: total 360.00, one OrderItem(3, 120.00)
C1_Witness ==
    /\ resp.route = "product_detail" /\ resp.to = "user_profile"
    /\ Len(orders) = 1 /\ Len(order_items) = 1
    /\ orders[1].total_price = 36000 /\ orders[1].status = "Pending"
    /\ order_items[1].quantity = 3 /\ order_items[1].price_at_order = 12000

\* C2: once an order exists, no step changes its total_price, owner or delivery
\* details nor its OrderItem; only its status changes, and only in a step that is an
\* update_order_status request.
C2_OrderFrozen ==
    [][/\ Len(orders') >= Len(orders)
       /\ \A i \in DOMAIN orders :
            /\ orders'[i] = [orders[i] EXCEPT !.status = orders'[i].status]
            /\ order_items'[i] = order_items[i]
            /\ orders'[i].status # orders[i].status =>
                 \E c \in Clients : \E s \in AppInputs.statuses : update_order_status(c, i, s)]_vars

\* an order keeps its 120.00 snapshot after the product went to 150.00 and the
\* status was changed
C2_Witness ==
    /\ Len(orders) = 1
    /\ orders[1].total_price = 36000 /\ order_items[1].price_at_order = 12000
    /\ orders[1].status = "Shipped"
    /\ \E p \in products : p.id = order_items[1].product_id /\ p.price = 15000

\* C3: an admin route requested by a logged-in non-admin answers with the redirect
\* to home and its notice and changes no table, file or session; requested by an
\* anonymous client it answers with the redirect to login and changes nothing.
C3_AdminGate ==
    [][\A c \in AppInputs.clients :
         (~CurrentIsAdmin(c) /\ resp'.route \in AdminRouteNames /\ AdminRoutes(c)) =>
            /\ UNCHANGED <<db, session, pending>>
            /\ resp'.client = c /\ resp'.kind = "redirect"
            /\ IF is_authenticated(c)
               THEN /\ resp'.to = "home"
                    /\ resp'.flash = "You do not have permission to access this page."
               ELSE resp'.to = "login"]_vars

\* a regular user was turned away from delete_product while a product existed
C3_Witness ==
    /\ resp.route = "delete_product" /\ resp.to = "home"
    /\ is_authenticated(resp.client) /\ ~current_user(resp.client).is_admin
    /\ products # {}

\* C4: a login step leaves the client logged in as user u exactly when u is the user
\* with the supplied e-mail and the supplied password verifies against u's stored
\* hash; otherwise the client stays anonymous.  Nothing but a login step logs a
\* client in.
C4_Login ==
    [][\A c \in Clients :
         /\ (~is_authenticated(c) /\ resp'.route = "login" /\ resp'.client = c) =>
              \A form \in LoginForms :
                 login(c, form, NoNext) =>
                 LET match == {u \in DOMAIN users :
                                 /\ users[u].email = form.email
                                 /\ check_password_hash(users[u].password_hash, form.password)}
                 IN IF match = {} THEN session'[c] = Anonymous ELSE session'[c] \in match
         /\ (~is_authenticated(c) /\ session'[c] # Anonymous) =>
                 \E form \in LoginForms : login(c, form, NoNext)]_vars

\* a regular user is logged in after a successful login
C4_Witness ==
    /\ resp.route = "login" /\ resp.flash = "Login successful!"
    /\ session[resp.client] # Anonymous
    /\ users[session[resp.client]].username = "alice"

SignupTaken(form) ==
    \E i \in DOMAIN users : users[i].username = form.username \/ users[i].email = form.email

\* C5: a signup whose username or e-mail is that of a registered user is turned down:
\* validation never takes up such a form, the user table changes only by the INSERT of
\* a row whose username and e-mail no existing row carries, the existing rows stay as
\* they are, and the "account created" answer comes only with such an INSERT.
C5_DuplicateSignup ==
    [][/\ \A c \in Clients :
            (pending'[c] # pending[c] /\ pending'[c] # NoReq) => ~SignupTaken(pending'[c])
       /\ users' # users =>
            /\ Len(users') = Len(users) + 1
            /\ SubSeq(users', 1, Len(users)) = users
            /\ ~SignupTaken(users'[Len(users')])
       /\ \A c \in Clients :
            (pending[c] # NoReq /\ pending'[c] = NoReq /\ SignupTaken(pending[c])) =>
                users' = users /\ resp'.kind = "error"
       /\ (resp'.route = "signup" /\ resp'.to = "login" /\ resp' # resp) => users' # users]_vars

\* the signup page came back with the username refused
C5_Witness ==
    /\ resp.route = "signup" /\ resp.kind = "render"
    /\ resp.flash = "That username is taken. Please choose a different one."
    /\ \E i \in DOMAIN users : users[i].username = "alice"

\* C6: no two rows of the user table share a username or an e-mail, whatever the
\* interleaving of the signups' validations and INSERTs.
C6_UniqueUsers ==
    \A i, j \in DOMAIN users :
        i # j => users[i].username # users[j].username /\ users[i].email # users[j].email

\* a signup that passed validation was refused by the INSERT: another signup with the
\* same name or e-mail was committed in between
C6_Witness ==
    /\ resp.route = "signup" /\ resp.kind = "error" /\ resp.to = "500"
    /\ Len(users) >= 2

FiveStatuses == {"Pending", "Processing", "Shipped", "Delivered", "Cancelled"}

\* C7: update_order_status by an admin on an existing order sets the status to the
\* value sent when it is one of the five, and changes nothing else; with any other
\* value, or none, it changes nothing at all and answers with the error notice.
C7_StatusUpdate ==
    [][\A c \in StatusInputs.clients : \A oid \in DOMAIN orders : \A s \in StatusInputs.statuses :
         (CurrentIsAdmin(c) /\ resp'.route = "update_order_status"
          /\ update_order_status(c, oid, s)) =>
            /\ UNCHANGED <<users, products, files, order_items, messages_tbl>>
            /\ IF s \in FiveStatuses
               THEN orders' = [orders EXCEPT ![oid].status = s]
               ELSE orders' = orders /\ resp'.flash = "Invalid status provided."]_vars

\* Pending -> Shipped, then "Lost": still Shipped, with the error notice
C7_Witness ==
    /\ resp.route = "update_order_status" /\ resp.flash = "Invalid status provided."
    /\ Len(orders) = 1 /\ orders[1].status = "Shipped"

\* C8: every order is created Pending, and the status of every order is always one of
\* the five values.
C8_StatusDomain ==
    /\ [](\A i \in DOMAIN orders : orders[i].status \in FiveStatuses)
    /\ [][\A i \in DOMAIN orders' \ DOMAIN orders : orders'[i].status = "Pending"]_vars

\* an order that left Pending, after a refused status
C8_Witness ==
    /\ Len(orders) = 1 /\ orders[1].status = "Processing"
    /\ resp.flash = "Invalid status provided."

\* C9: whatever the status of an order, an admin can move it to each of the five
\* statuses in one update_order_status request.
C9_AnyTransition ==
    \A c \in StatusInputs.clients :
        (Ready(c) /\ CurrentIsAdmin(c)) =>
            \A oid \in DOMAIN orders : \A s \in FiveStatuses :
                ENABLED (update_order_status(c, oid, s) /\ orders'[oid].status = s)

\* a delivered order in front of an admin: the move back to Pending is open
C9_Witness ==
    /\ resp.route = "update_order_status"
    /\ CurrentIsAdmin(resp.client) /\ Ready(resp.client)
    /\ Len(orders) = 1 /\ orders[1].status = "Delivered"

\* C10: the admin's view of the conversation with a regular user u marks read every
\* message from u to that admin and leaves every other message as it was.
C10_MarkRead ==
    [][\A c \in MessagingInputs.clients : \A uid \in DOMAIN users : \A form \in MessagingInputs.message_forms :
         (CurrentIsAdmin(c) /\ ~users[uid].is_admin /\ resp'.route = "admin_messages"
          /\ admin_messages(c, uid, form)) =>
            \A i \in DOMAIN messages_tbl :
                messages_tbl'[i] =
                    IF messages_tbl[i].sender_id = uid /\ messages_tbl[i].receiver_id = session[c]
                    THEN [messages_tbl[i] EXCEPT !.is_read = TRUE]
                    ELSE messages_tbl[i]]_vars

\* after the admin looked at one user's conversation: that user's message is read,
\* another user's message to the admin is not
C10_Witness ==
    /\ resp.route = "admin_messages"
    /\ \E i, j \in DOMAIN messages_tbl :
        /\ messages_tbl[i].receiver_id = session[resp.client] /\ messages_tbl[i].is_read
        /\ messages_tbl[j].receiver_id = session[resp.client] /\ ~messages_tbl[j].is_read
        /\ messages_tbl[i].sender_id # messages_tbl[j].sender_id
\* a message form of client c reaching the code that sends: the user view of a
\* logged-in client while an admin account exists, or the admin view with an existing
\* counterparty selected
Submission(c, form) ==
    \/ is_authenticated(c) /\ AdminIds # {} /\ resp'.route = "messages" /\ messages(c, form)
    \/ /\ CurrentIsAdmin(c) /\ resp'.route = "admin_messages"
       /\ \E uid \in DOMAIN users : admin_messages(c, uid, form)

\* C11 as stated: a text of length 0 or above 500 appends no Message, every text of
\* length 1 to 500 appends exactly one.
C11_LengthOnly ==
    [][\A c \in LengthInputs.clients : \A form \in LengthInputs.message_forms \ {NoForm} :
         Submission(c, form) =>
            Len(messages_tbl') = Len(messages_tbl)
                + (IF Len(form.message_text) \in 1..500 THEN 1 ELSE 0)]_vars

\* C11 (amended): a text of length 0 or above 500, or made of whitespace only,
\* appends no Message; every text of length 1 to 500 that holds a character other than
\* whitespace appends exactly one Message, which carries that text.
C11_MessageLength ==
    [][\A c \in LengthInputs.clients : \A form \in LengthInputs.message_forms \ {NoForm} :
         Submission(c, form) =>
            IF /\ Len(form.message_text) \in 1..500
               /\ \E i \in 1..Len(form.message_text) : form.message_text[i] \notin {" ", "\t", "\n", "\r"}
            THEN /\ Len(messages_tbl') = Len(messages_tbl) + 1
                 /\ messages_tbl'[Len(messages_tbl')].message_text = form.message_text
            ELSE Len(messages_tbl') = Len(messages_tbl)]_vars

\* a text of 500 characters and one of 1 character were both stored
C11_Witness ==
    /\ resp.route = "messages"
    /\ \E i, j \in DOMAIN messages_tbl :
         Len(messages_tbl[i].message_text) = 500 /\ Len(messages_tbl[j].message_text) = 1

C13_AppendOnly ==
    [][/\ Len(messages_tbl') >= Len(messages_tbl)
       /\ \A i \in DOMAIN messages_tbl :
            /\ messages_tbl'[i] = [messages_tbl[i] EXCEPT !.is_read = messages_tbl'[i].is_read]
            /\ messages_tbl[i].is_read => messages_tbl'[i].is_read]_vars

\* a message already read is shown again in the admin's view of the conversation
C13_Witness ==
    /\ resp.route = "admin_messages" /\ resp.kind = "render"
    /\ Len(messages_tbl) = 2
    /\ messages_tbl[1].is_read /\ messages_tbl[2].is_read
    /\ messages_tbl[1].sender_id = messages_tbl[2].sender_id

\* the term occurs in the text, letters compared without regard to case
Contains(text, term) ==
    \E i \in 0..(Len(text) - Len(term)) :
        \A k \in 1..Len(term) : lower(text[i + k]) = lower(term[k])

\* a filter that is provided: there, and not empty (a price: there and a number)
Provided(arg) == (arg.kind = "text" /\ arg.value # <<>>) \/ arg.kind = "number"

Satisfies(p, args) ==
    /\ Provided(args.category) => p.category = args.category.value
    /\ Provided(args.material) => p.material = args.material.value
    /\ Provided(args.min_price) => p.price >= args.min_price.value
    /\ Provided(args.max_price) => p.price <= args.max_price.value
    /\ Provided(args.search) =>
         \E field \in {p.name, p.description, p.category, p.material} :
             Contains(field, args.search.value)

\* C14: the listing holds exactly the products that satisfy every provided filter
\* (category and material equal, min_price <= price <= max_price, search term contained
\* case-insensitively in the name, description, category or material), each once; an
\* absent or empty filter constrains nothing.
C14_ListProducts ==
    [][\A c \in CatalogInputs.clients :
         (resp'.route = "products" /\ list_products(c, resp'.query)) =>
            /\ Range(resp'.products) = {p \in products : Satisfies(p, resp'.query)}
            /\ Len(resp'.products) = Cardinality(Range(resp'.products))]_vars

\* C15: delete_product by an admin on an existing product removes the product's image
\* file when the product names one and removes the Product row; a listing shows only
\* rows of the table, so no later listing shows the product.
C15_DeleteProduct ==
    [][\A c \in DeleteInputs.clients :
         /\ \A pid \in ProductIds :
              (CurrentIsAdmin(c) /\ resp'.route = "delete_product" /\ delete_product(c, pid)) =>
                 /\ ProductById(pid).image_filename # NoFile =>
                        ProductById(pid).image_filename \notin files'
                 /\ pid \notin {p.id : p \in products'}
         /\ (resp'.route = "products" /\ list_products(c, resp'.query)) =>
                 Range(resp'.products) \subseteq products']_vars

DeferredOrder(c, pid) ==
    /\ ~is_authenticated(c) /\ pid \in ProductIds
    /\ resp'.route = "product_detail"
    /\ product_detail(c, pid, OrderOf("3"))

\* a login of client c that succeeds, sent to login?next=<the URL of product pid>
LoginBack(c, pid) ==
    /\ ~is_authenticated(c) /\ resp'.route = "login" /\ session'[c] # Anonymous
    /\ \E form \in DeferInputs.login_forms : login(c, form, ProductUrl(pid))

\* the browser of client c, logged in and redirected to the page of product pid,
\* requests that page
FollowBack(c, pid) ==
    /\ resp.route = "login" /\ resp.kind = "redirect" /\ resp.to = ProductUrl(pid)
    /\ resp'.route = "product_detail"
    /\ product_detail(c, pid, NoForm)

\* C17 as stated: an anonymous order submission creates no Order and no OrderItem and
\* is redirected to login with the product URL as next; a successful login redirects
\* to that URL; and the deferred order is carried out there.
C17_Resumed ==
    [][\A c \in DeferInputs.clients : \A pid \in DeferInputs.product_ids :
         /\ DeferredOrder(c, pid) =>
               /\ orders' = orders /\ order_items' = order_items
               /\ resp'.kind = "redirect" /\ resp'.to = "login" /\ resp'.next = ProductUrl(pid)
         /\ LoginBack(c, pid) => resp'.kind = "redirect" /\ resp'.to = ProductUrl(pid)
         /\ (pid \in ProductIds /\ FollowBack(c, pid)) =>
               Len(orders') = Len(orders) + 1 /\ Len(order_items') = Len(order_items) + 1]_vars

\* C17 (amended): an anonymous order submission creates no Order and no OrderItem and
\* is redirected to login with the product URL as next; a successful login redirects
\* to that URL and places no order; the request of that URL that follows shows the
\* product page and places no order either: the form sent before the login is gone.
C17_Redirected ==
    [][\A c \in DeferInputs.clients : \A pid \in DeferInputs.product_ids :
         /\ DeferredOrder(c, pid) =>
               /\ orders' = orders /\ order_items' = order_items
               /\ resp'.kind = "redirect" /\ resp'.to = "login" /\ resp'.next = ProductUrl(pid)
         /\ LoginBack(c, pid) =>
               /\ resp'.kind = "redirect" /\ resp'.to = ProductUrl(pid)
               /\ orders' = orders /\ order_items' = order_items
         /\ (pid \in ProductIds /\ FollowBack(c, pid)) =>
               /\ orders' = orders /\ order_items' = order_items
               /\ resp'.kind = "render"]_vars

\* logged in and sent back to the page of product 1, with no order placed
C17_Witness ==
    /\ resp.route = "login" /\ resp.kind = "redirect" /\ resp.to = ProductUrl(1)
    /\ session[resp.client] # Anonymous
    /\ 1 \in ProductIds
    /\ orders = <<>>

\* C18: in every committed state each Order has exactly one OrderItem and each
\* OrderItem belongs to an Order of the table, also after requests that failed between
\* the INSERT of the order and the commit.
C18_Atomic ==
    /\ \A o \in DOMAIN orders :
          Cardinality({i \in DOMAIN order_items : order_items[i].order_id = o}) = 1
    /\ \A i \in DOMAIN order_items : order_items[i].order_id \in DOMAIN orders

\* an order request failed after an earlier one had gone through
C18_Witness ==
    /\ resp.route = "product_detail" /\ resp.kind = "error" /\ resp.to = "500"
    /\ Len(orders) = 1 /\ Len(order_items) = 1

\* C19: a product_detail request adds an Order or an OrderItem only if the quantity sent
\* is one of 1..5 and the name, address and contact are there and no longer than 100,
\* 200 and 20 characters; so every OrderItem of the table has a quantity from 1 to 5.
C19_OrderForm ==
    /\ [](\A i \in DOMAIN order_items : order_items[i].quantity \in 1..5)
    /\ [][\A c \in OrderFormInputs.clients : \A pid \in OrderFormInputs.product_ids :
            \A form \in OrderFormInputs.order_forms :
              (resp'.route = "product_detail" /\ product_detail(c, pid, form)
               /\ (orders' # orders \/ order_items' # order_items)) =>
                  /\ form.quantity \in {"1", "2", "3", "4", "5"}
                  /\ Len(form.customer_name) \in 1..100
                  /\ Len(form.customer_address) \in 1..200
                  /\ Len(form.customer_contact) \in 1..20]_vars

\* an order of quantity 5 is in the table and the form sent last was turned down
C19_Witness ==
    /\ resp.route = "product_detail" /\ resp.kind = "render"
    /\ is_authenticated(resp.client)
    /\ \E i \in DOMAIN order_items : order_items[i].quantity = 5

\* C20: a product_detail request, GET or with an order form, for a product id that is
\* not in the table is answered with the not-found page and adds no Order and no
\* OrderItem, whether the client is anonymous, a regular user or an admin.
C20_NoSuchProduct ==
    [][\A c \in DeferInputs.clients : \A pid \in DeferInputs.product_ids \ ProductIds :
         \A form \in DeferInputs.order_forms :
            (resp'.route = "product_detail" /\ product_detail(c, pid, form)) =>
               /\ resp'.kind = "error" /\ resp'.to = "404"
               /\ orders' = orders /\ order_items' = order_items
               /\ UNCHANGED <<users, products, files, messages_tbl, session>>]_vars

\* a logged-in client got the not-found page while another product was on sale
C20_Witness ==
    /\ resp.route = "product_detail" /\ resp.kind = "error" /\ resp.to = "404"
    /\ is_authenticated(resp.client)
    /\ products # {}

\* the messages exchanged by a and b, whichever way
Between(a, b) ==
    {m \in Range(messages_tbl) : \/ m.sender_id = a /\ m.receiver_id = b
                                 \/ m.sender_id = b /\ m.receiver_id = a}

\* shown is Between(a, b), each message once, by ascending timestamp
ShowsConversation(shown, a, b) ==
    /\ Range(shown) = Between(a, b)
    /\ Len(shown) = Cardinality(Between(a, b))
    /\ \A i, j \in DOMAIN shown : i < j => shown[i].timestamp <= shown[j].timestamp

\* C21: the conversation a message page shows for a pair (a, b), the acting user and
\* the admin on the user page, the admin and the selected counterparty (a user that
\* is not an admin) on the admin page, holds exactly the messages between the two,
\* in either direction, none with a third user, by ascending timestamp.
C21_Conversation ==
    /\ (resp.route = "messages" /\ resp.kind = "render") =>
          ShowsConversation(resp.messages, session[resp.client], First(AdminIds))
    /\ (resp.route = "admin_messages" /\ resp.kind = "render" /\ resp.selected_user # 0
          /\ ~users[resp.selected_user].is_admin) =>
          ShowsConversation(resp.messages, session[resp.client], resp.selected_user)

\* the admin page shows the conversation with one user while the table also holds a
\* message of a third user
C21_Witness ==
    /\ resp.route = "admin_messages" /\ resp.kind = "render" /\ resp.selected_user # 0
    /\ ~users[resp.selected_user].is_admin
    /\ resp.messages # <<>>
    /\ \E m \in Range(messages_tbl) :
          {m.sender_id, m.receiver_id} \cap {resp.selected_user} = {}
          /\ m.sender_id # session[resp.client]

\* C22: the counterparty list of the admin page is exactly the users that are not
\* admins and have exchanged at least one message with the acting admin, each once.
C22_Counterparties ==
    (resp.route = "admin_messages" /\ resp.kind = "render") =>
        LET me == session[resp.client]
            listed == resp.users_with_messages
        IN /\ Range(listed) = {u \in DOMAIN users :
                                 ~users[u].is_admin /\ Between(u, me) # {}}
           /\ \A i, j \in DOMAIN listed : i # j => listed[i] # listed[j]

\* the list names one user who exchanged two messages with the admin, and leaves out
\* a registered user who exchanged none
C22_Witness ==
    /\ resp.route = "admin_messages" /\ resp.kind = "render"
    /\ \E u \in Range(resp.users_with_messages) :
          Cardinality(Between(u, session[resp.client])) >= 2
    /\ \E u \in DOMAIN users : ~users[u].is_admin /\ u \notin Range(resp.users_with_messages)

\* C23: once the startup seeding has run, exactly one user has is_admin set, the
\* account named admin; a seeding that finds that account adds nothing, every user
\* added later is not an admin, and no step changes the is_admin flag of a user.
C23_OneAdmin ==
    /\ [](phase # "boot" =>
            /\ Cardinality(AdminIds) = 1
            /\ \A u \in AdminIds : users[u].username = "admin")
    /\ [][/\ (UsersByUsername("admin") # {} /\ phase' # phase) => users' = users
          /\ Len(users') >= Len(users)
          /\ \A u \in DOMAIN users : users'[u].is_admin = users[u].is_admin
          /\ (phase = "serving") =>
                \A u \in DOMAIN users' \ DOMAIN users : ~users'[u].is_admin]_vars

\* the server is serving after the seeding, and a user who signed up is in the table
\* next to the seeded admin
C23_Witness ==
    /\ phase = "serving"
    /\ Len(users) >= 2
    /\ Cardinality(AdminIds) = 1

\* C25: no step removes a User, Order, OrderItem or Message row; a Product row goes
\* only in a delete_product request of an admin, and a file only in a delete_product
\* request or in an edit_product request of an admin that stores a new image.
C25_NothingDeleted ==
    [][/\ Len(users') >= Len(users)
       /\ Len(orders') >= Len(orders)
       /\ Len(order_items') >= Len(order_items)
       /\ Len(messages_tbl') >= Len(messages_tbl)
       /\ ~(ProductIds \subseteq {p.id : p \in products'}) =>
             /\ resp'.route = "delete_product"
             /\ CurrentIsAdmin(resp'.client)
       /\ ~(files \subseteq files') =>
             /\ CurrentIsAdmin(resp'.client)
             /\ \/ resp'.route = "delete_product"
                \/ /\ resp'.route = "edit_product"
                   /\ resp'.flash = "Product updated successfully!"
                   /\ \E p \in products : files \ files' = {p.image_filename}]_vars

\* an admin has deleted the last product and its file, while users are in the table
C25_Witness ==
    /\ resp.route = "delete_product" /\ resp.kind = "redirect"
    /\ resp.flash = "Product deleted successfully!"
    /\ products = {} /\ files = {}
    /\ Len(users) >= 2

\* C26 as stated: of two status changes of one order in flight at once, each commit
\* writes its status, so that after a commit the order has that request's status.
C26_LastCommitWins ==
    [][\A c \in Clients :
         (InFlight(c) /\ update_order_status_commit(c)
            /\ pending[c].status \in OrderStatuses) =>
               orders'[pending[c].order_id].status = pending[c].status]_vars

\* C26: two status changes of one order run without coordination. Each is answered
\* with the redirect to the order list, never with an error or a notice of the
\* conflict; a request whose status differs from the one it loaded writes it
\* whatever the stored status has become meanwhile, so the other admin's update is
\* lost; a request whose status equals the one it loaded writes nothing.
C26_LostUpdate ==
    [][\A c \in Clients :
         (InFlight(c) /\ update_order_status_commit(c)) =>
            LET req == pending[c]
            IN /\ resp'.kind = "redirect" /\ resp'.to = "admin_orders"
               /\ req.status \in OrderStatuses =>
                     /\ resp'.flash = "Order " \o ToString(req.order_id)
                                        \o " status updated to " \o req.status \o "."
                     /\ req.status # req.loaded =>
                           orders' = [orders EXCEPT ![req.order_id].status = req.status]
                     /\ req.status = req.loaded => orders' = orders
               /\ req.status \notin OrderStatuses => orders' = orders]_vars

\* one admin session has just committed a status while the other session's request,
\* which loaded the order before that commit and asks for a third status, is still
\* in flight
C26_Witness ==
    \E c \in Clients :
        /\ InFlight(c)
        /\ pending[c].status \in OrderStatuses
        /\ orders[pending[c].order_id].status \notin {pending[c].loaded, pending[c].status}
        /\ pending[c].status # pending[c].loaded
        /\ resp.route = "update_order_status" /\ resp.client # c
        /\ resp.kind = "redirect"

\* the text after the last dot of a file name, in lower case, is one of the four
\* image extensions
ImageExtension(image) ==
    \E i \in DOMAIN image :
        /\ image[i] = "."
        /\ \A j \in (i + 1)..Len(image) : image[j] # "."
        /\ LowerStr(SubSeq(image, i + 1, Len(image)))
              \in {<<"p", "n", "g">>, <<"j", "p", "g">>, <<"j", "p", "e", "g">>, <<"g", "i", "f">>}

\* C27: add_product with valid fields and no file, or a file whose extension is
\* not png, jpg, jpeg or gif (case ignored), adds no Product and no file and shows
\* the warning; every Product in the table has an image reference.
C27_AddNeedsImage ==
    /\ [](\A p \in products : p.image_filename # NoFile)
    /\ [][\A c \in UploadInputs.clients : \A form \in UploadInputs.product_forms :
           \A image \in UploadInputs.images :
              (resp'.route = "add_product" /\ add_product(c, form, image)
                 /\ CurrentIsAdmin(c) /\ ~ImageExtension(image)) =>
                    /\ products' = products /\ files' = files
                    /\ resp'.kind = "render"
                    /\ resp'.flash = "Invalid image file or no file uploaded. Please upload a PNG, JPG, JPEG, or GIF."]_vars

\* the warning was shown for an upload, and a product whose file came with an
\* upper-case extension is in the table
C27_Witness ==
    /\ resp.route = "add_product" /\ resp.kind = "render"
    /\ resp.flash = "Invalid image file or no file uploaded. Please upload a PNG, JPG, JPEG, or GIF."
    /\ \E p \in products : p.image_filename = <<"R", ".", "P", "N", "G">>

\* C28: every stored Message has exactly one admin party: it goes from a user that
\* is not an admin to an admin, or from an admin to a user that is not an admin.
C28_OneAdminParty ==
    \A m \in Range(messages_tbl) :
        users[m.sender_id].is_admin # users[m.receiver_id].is_admin

\* C29: every Product with an image reference refers to a file that is present in
\* the upload directory.
C29_ImagesPresent ==
    \A p \in products : p.image_filename # NoFile => p.image_filename \in files

\* C30: edit_product with valid fields and a file of a disallowed extension leaves
\* the stored Product as it was, every field and the image reference, and the files
\* as they were; edit_product with valid fields and no file stores the new fields
\* and keeps the image reference and the files.
C30_EditKeepsProduct ==
    [][\A c \in EditInputs.clients : \A pid \in ProductIds :
         \A form \in EditInputs.product_forms : \A image \in EditInputs.images :
            (resp'.route = "edit_product" /\ CurrentIsAdmin(c)
               /\ (image = NoFile \/ ~ImageExtension(image))
               /\ edit_product(c, pid, form, image)) =>
                  /\ (image # NoFile /\ ~ImageExtension(image)) =>
                        /\ products' = products /\ files' = files
                        /\ resp'.kind = "render"
                        /\ resp'.flash = "Invalid image file. Please upload a PNG, JPG, JPEG, or GIF."
                  /\ image = NoFile =>
                        /\ files' = files
                        /\ \E p \in products' :
                              /\ p.id = pid
                              /\ p.image_filename = ProductById(pid).image_filename
                              /\ p.price = form.price /\ p.name = form.name]_vars

\* the warning of edit_product was shown while the product still has the lower price
\* and its image file
C30_Witness ==
    /\ resp.route = "edit_product" /\ resp.kind = "render"
    /\ resp.flash = "Invalid image file. Please upload a PNG, JPG, JPEG, or GIF."
    /\ \E p \in products : p.price = RingForm.price /\ p.image_filename \in files
====
